---- MODULE Spec2Model ----
(***************************************************************************)
(* Model of python/sqlite/list_compile_options.py: main() opens an         *)
(* in-memory SQLite connection, runs PRAGMA compile_options through        *)
(* get_compile_options(cursor), prints the first field of every returned   *)
(* row and closes the connection.                                          *)
(*                                                                         *)
(* Python values are tagged records [t, v]: a text value is Text(s), a row *)
(* is Row(fields), a list is List(items). Lines on standard output are     *)
(* bare strings.                                                           *)
(***************************************************************************)
EXTENDS Naturals, Sequences, FiniteSets

\* ------------------------------------------------------------- bounds

\* Largest result set of the introspection query that is explored.
MaxRows == 2

\* Number of successive invocations of main() that are explored.
Invocations == 2

\* Option identifiers an engine build may report (spec section 8's example).
Identifiers == {"THREADSAFE", "ENABLE_FTS5", "OMIT_LOAD_EXTENSION"}

\* ------------------------------------------------------------- values

Text(s) == [t |-> "str", v |-> s]

Row(fields) == [t |-> "tuple", v |-> fields]

List(items) == [t |-> "list", v |-> items]

\* A local name that has not been assigned yet.
Unbound == [t |-> "unbound", v |-> <<>>]

\* Sequences over S of length at most n.
SeqUpTo(S, n) == UNION {[1..k -> S] : k \in 0..n}

\* The rows PRAGMA compile_options yields: one text column per row, one row
\* per option of the build, in the engine's order.
ResultSets == SeqUpTo({Row(<<Text(s)>>) : s \in Identifiers}, MaxRows)

\* An engine build and runtime: what the black-box engine answers.
\*   available:  sqlite3.connect(":memory:") succeeds
\*   pragma:     the engine accepts PRAGMA compile_options
\*   fetch:      reading the result set succeeds
\*   rows:       the result set of the pragma
Builds == [available : BOOLEAN, pragma : BOOLEAN, fetch : BOOLEAN, rows : ResultSets]

\* ------------------------------------------------------------- state

VARIABLES
    build,          \* the engine build, fixed for the whole behaviour
    inv,            \* number of the current invocation of main()
    pc,             \* source line about to execute: L10 L11 L5 L6 L17 L21, or exit
    conns,          \* engine side: state of every connection ever opened
    conn,           \* main's local conn: index in conns, 0 while unbound
    cursor,         \* main's local cursor: the connection it belongs to, 0 while unbound
    pending,        \* rows the cursor holds that have not been fetched
    options_list,   \* main's local options_list
    idx,            \* position of the for loop's iterator in options_list
    stdout,         \* lines written to standard output by this invocation
    error,          \* exception that propagated out of main, or "none"
    exitStatus,     \* <<status>> once the process has ended, <<>> while it runs
    trace,          \* calls made by this invocation, in order
    finished        \* outcome of every earlier invocation

vars == <<build, inv, pc, conns, conn, cursor, pending, options_list, idx,
          stdout, error, exitStatus, trace, finished>>

\* ------------------------------------------------------------- helpers

\* One entry of the call trace: the call and whether main's connection was
\* open when it was made.
Call(op) == [op |-> op, open |-> conn # 0 /\ conns[conn] = "open"]

\* Variant: the rows come back in another order than the engine's.
FetchAll_Reordered(p) == [k \in 1..Len(p) |-> p[Len(p) + 1 - k]]

\* Variant: only the next row is fetched, the rest stays in the cursor.
FetchAll_One(p) == IF p = <<>> THEN p ELSE <<Head(p)>>

\* Line 6: cursor.fetchall() returns every row the cursor still holds.
FetchAll(p) == p

\* Line 18: option[0].
Field0(row) == row.v[1]

\* Line 18: f"{value}" of a text value is its characters.
Format(value) == value.v

\* Variant: the top level swallows the exception and ends normally.
ExitStatusOf_Swallowed(err) == 0

\* Lines 24-25: an exception leaving main() ends the process with status 1,
\* a normal return with status 0.
ExitStatusOf(err) == IF err = "none" THEN 0 ELSE 1

\* main() has no handler: the exception propagates to the top level.
Raise(err) ==
    /\ error' = err
    /\ exitStatus' = <<ExitStatusOf(err)>>
    /\ pc' = "exit"

\* ------------------------------------------------------------- main()

Init ==
    /\ build \in Builds
    /\ inv = 1
    /\ pc = "L10"
    /\ conns = <<>>
    /\ conn = 0
    /\ cursor = 0
    /\ pending = <<>>
    /\ options_list = Unbound
    /\ idx = 0
    /\ stdout = <<>>
    /\ error = "none"
    /\ exitStatus = <<>>
    /\ trace = <<>>
    /\ finished = <<>>

\* Variant: the first connection is kept and handed out again.
Connect_Cached ==
    /\ pc = "L10"
    /\ trace' = Append(trace, Call("connect"))
    /\ IF build.available
         THEN /\ conns' = IF conns = <<>> THEN <<"open">> ELSE conns
              /\ conn' = 1
              /\ pc' = "L11"
              /\ UNCHANGED <<error, exitStatus>>
         ELSE /\ Raise("ConnectionError")
              /\ UNCHANGED <<conns, conn>>
    /\ UNCHANGED <<build, inv, cursor, pending, options_list, idx, stdout, finished>>

\* Line 10: conn = sqlite3.connect(":memory:")
Connect ==
    /\ pc = "L10"
    /\ trace' = Append(trace, Call("connect"))
    /\ IF build.available
         THEN /\ conns' = Append(conns, "open")
              /\ conn' = Len(conns) + 1
              /\ pc' = "L11"
              /\ UNCHANGED <<error, exitStatus>>
         ELSE /\ Raise("ConnectionError")
              /\ UNCHANGED <<conns, conn>>
    /\ UNCHANGED <<build, inv, cursor, pending, options_list, idx, stdout, finished>>

\* Line 11: cursor = conn.cursor(); line 14 then calls get_compile_options.
Cursor ==
    /\ pc = "L11"
    /\ trace' = Append(trace, Call("cursor"))
    /\ cursor' = conn
    /\ pending' = <<>>
    /\ pc' = "L5"
    /\ UNCHANGED <<build, inv, conns, conn, options_list, idx, stdout, error,
                   exitStatus, finished>>

\* Variant: a rejected query is issued a second time before giving up.
Execute_Retry ==
    /\ pc = "L5"
    /\ trace' = Append(trace, Call("execute"))
    /\ IF ~build.pragma
         THEN /\ IF Len(trace) < 3
                   THEN UNCHANGED <<pc, error, exitStatus>>
                   ELSE Raise("QueryError")
              /\ UNCHANGED pending
         ELSE /\ pending' = build.rows
              /\ pc' = "L6"
              /\ UNCHANGED <<error, exitStatus>>
    /\ UNCHANGED <<build, inv, conns, conn, cursor, options_list, idx, stdout, finished>>

\* Line 5: cursor.execute("PRAGMA compile_options;"). The driver refuses any
\* operation on a closed connection (ProgrammingError); the engine refuses
\* the pragma on a build that does not support it.
Execute ==
    /\ pc = "L5"
    /\ trace' = Append(trace, Call("execute"))
    /\ IF conns[cursor] # "open"
         THEN /\ Raise("ProgrammingError")
              /\ UNCHANGED pending
         ELSE IF ~build.pragma
         THEN /\ Raise("QueryError")
              /\ UNCHANGED pending
         ELSE /\ pending' = build.rows
              /\ pc' = "L6"
              /\ UNCHANGED <<error, exitStatus>>
    /\ UNCHANGED <<build, inv, conns, conn, cursor, options_list, idx, stdout, finished>>

\* Line 6: return cursor.fetchall(); line 14 binds the result to options_list.
Fetchall ==
    /\ pc = "L6"
    /\ trace' = Append(trace, Call("fetchall"))
    /\ IF conns[cursor] # "open"
         THEN /\ Raise("ProgrammingError")
              /\ UNCHANGED <<pending, options_list>>
         ELSE IF ~build.fetch
         THEN /\ Raise("QueryError")
              /\ UNCHANGED <<pending, options_list>>
         ELSE /\ options_list' = List(FetchAll(pending))
              /\ pending' = SubSeq(pending, Len(FetchAll(pending)) + 1, Len(pending))
              /\ pc' = "L17"
              /\ UNCHANGED <<error, exitStatus>>
    /\ UNCHANGED <<build, inv, conns, conn, cursor, idx, stdout, finished>>

\* Variant: the line is written with a newline of its own, so that an empty
\* line follows it.
PrintOption_BlankLine ==
    /\ pc = "L17"
    /\ idx < Len(options_list.v)
    /\ trace' = Append(trace, Call("print"))
    /\ stdout' = stdout \o <<Format(Field0(options_list.v[idx + 1])), "">>
    /\ idx' = idx + 1
    /\ UNCHANGED <<build, inv, pc, conns, conn, cursor, pending, options_list,
                   error, exitStatus, finished>>

\* Variant: an option that was already printed is skipped.
PrintOption_Dedup ==
    /\ pc = "L17"
    /\ idx < Len(options_list.v)
    /\ trace' = Append(trace, Call("print"))
    /\ stdout' = IF \E k \in 1..Len(stdout) :
                       stdout[k] = Format(Field0(options_list.v[idx + 1]))
                   THEN stdout
                   ELSE Append(stdout, Format(Field0(options_list.v[idx + 1])))
    /\ idx' = idx + 1
    /\ UNCHANGED <<build, inv, pc, conns, conn, cursor, pending, options_list,
                   error, exitStatus, finished>>

\* Lines 17-18: one iteration of the loop: print(f"{option[0]}")
PrintOption ==
    /\ pc = "L17"
    /\ idx < Len(options_list.v)
    /\ trace' = Append(trace, Call("print"))
    /\ stdout' = Append(stdout, Format(Field0(options_list.v[idx + 1])))
    /\ idx' = idx + 1
    /\ UNCHANGED <<build, inv, pc, conns, conn, cursor, pending, options_list,
                   error, exitStatus, finished>>

\* Variant: main returns at once when there is nothing to print.
LoopExit_ReturnIfEmpty ==
    /\ pc = "L17"
    /\ idx = Len(options_list.v)
    /\ IF options_list.v = <<>>
         THEN /\ pc' = "exit"
              /\ exitStatus' = <<ExitStatusOf(error)>>
         ELSE /\ pc' = "L21"
              /\ UNCHANGED exitStatus
    /\ UNCHANGED <<build, inv, conns, conn, cursor, pending, options_list, idx,
                   stdout, error, trace, finished>>

\* Line 17: the iterator is exhausted, control falls to line 21.
LoopExit ==
    /\ pc = "L17"
    /\ idx = Len(options_list.v)
    /\ pc' = "L21"
    /\ UNCHANGED <<build, inv, conns, conn, cursor, pending, options_list, idx,
                   stdout, error, exitStatus, trace, finished>>

\* Variant: the connection is closed a second time before main returns.
Close_Twice ==
    /\ pc = "L21"
    /\ trace' = Append(trace, Call("close"))
    /\ conns' = [conns EXCEPT ![conn] = "closed"]
    /\ IF conns[conn] = "open"
         THEN UNCHANGED <<pc, exitStatus>>
         ELSE /\ exitStatus' = <<0>>
              /\ pc' = "exit"
    /\ UNCHANGED <<build, inv, conn, cursor, pending, options_list, idx, stdout,
                   error, finished>>

\* Line 21: conn.close(); main returns and the process ends normally.
Close ==
    /\ pc = "L21"
    /\ trace' = Append(trace, Call("close"))
    /\ conns' = [conns EXCEPT ![conn] = "closed"]
    /\ exitStatus' = <<ExitStatusOf(error)>>
    /\ pc' = "exit"
    /\ UNCHANGED <<build, inv, conn, cursor, pending, options_list, idx, stdout,
                   error, finished>>

\* What an invocation leaves behind for an observer.
Outcome ==
    [returned |-> options_list, out |-> stdout, status |-> exitStatus, conn |-> conn]

\* Lines 24-25: the program is run again on the same engine build. Nothing
\* of the previous invocation's frame survives.
Invoke ==
    /\ pc = "exit"
    /\ inv < Invocations
    /\ finished' = Append(finished, Outcome)
    /\ inv' = inv + 1
    /\ pc' = "L10"
    /\ conn' = 0
    /\ cursor' = 0
    /\ pending' = <<>>
    /\ options_list' = Unbound
    /\ idx' = 0
    /\ stdout' = <<>>
    /\ error' = "none"
    /\ exitStatus' = <<>>
    /\ trace' = <<>>
    /\ UNCHANGED <<build, conns>>

Next ==
    \/ Connect
    \/ Cursor
    \/ Execute
    \/ Fetchall
    \/ PrintOption
    \/ LoopExit
    \/ Close
    \/ Invoke

Spec == Init /\ [][Next]_vars

\* ------------------------------------------------------------- properties

\* Number of calls of op made by the current invocation.
Count(op) == Cardinality({k \in 1..Len(trace) : trace[k].op = op})

\* The lines the program is to write for a result set: the characters of the
\* first field of each row, in the engine's order.
Lines(rows) == [k \in 1..Len(rows) |-> rows[k].v[1].v]

\* The invocation has ended.
Ended == pc = "exit"

\* C1: whenever the connection was opened, it has been closed exactly once
\* when the process ends, also when execute or fetchall raised.
C1_ClosedExactlyOnce ==
    (Ended /\ conn # 0) => (Count("close") = 1 /\ conns[conn] = "closed")

\* C2: when the query succeeds with rows r1..rn, exactly n lines have been
\* written when the process ends, line i being the first field of ri, in the
\* engine's order, nothing added, dropped or reordered.
C2_OneLinePerRow ==
    (Ended /\ error = "none") => stdout = Lines(build.rows)

\* C2 witness: a run that printed a two-row result set that is neither
\* sorted nor free of duplicates.
C2_Witness ==
    /\ Ended
    /\ error = "none"
    /\ stdout \in {<<"THREADSAFE", "ENABLE_FTS5">>, <<"THREADSAFE", "THREADSAFE">>}

\* C3: a run ends with the complete list on standard output or with nothing
\* on it; when the query failed it was issued once, nothing was written and
\* the exit status is not zero.
C3_AllOrNothing ==
    Ended =>
        /\ stdout = <<>> \/ stdout = Lines(build.rows)
        /\ error = "QueryError" =>
              /\ Count("execute") = 1
              /\ Count("fetchall") <= 1
              /\ stdout = <<>>
              /\ exitStatus # <<0>>

\* C3 witness: the query failed on a build that has options to report.
C3_Witness ==
    /\ Ended
    /\ error = "QueryError"
    /\ build.rows # <<>>

\* C4: when sqlite3.connect fails the process ends with a non-zero status,
\* nothing on standard output, and no query or close was ever issued.
C4_ConnectFailure ==
    (Ended /\ error = "ConnectionError") =>
        /\ exitStatus # <<0>>
        /\ stdout = <<>>
        /\ conn = 0
        /\ \A k \in 1..Len(trace) : trace[k].op = "connect"

\* C4 witness: connection acquisition failed on a build that has options.
C4_Witness ==
    /\ Ended
    /\ error = "ConnectionError"
    /\ build.rows # <<>>
    /\ build.pragma

\* Position of a call in the linear order connect, query, iterate/print,
\* disconnect.
Rank(op) ==
    CASE op = "connect"  -> 1
      [] op = "cursor"   -> 2
      [] op = "execute"  -> 3
      [] op = "fetchall" -> 4
      [] op = "print"    -> 5
      [] op = "close"    -> 6

\* C5: every call on the connection is made while it is open, nothing
\* follows the close, connect, query and close happen at most once per
\* invocation, and the calls come in the order connect, query, print, close.
C5_LinearOrder ==
    /\ \A k \in 1..Len(trace) :
          trace[k].op \in {"cursor", "execute", "fetchall", "close"} => trace[k].open
    /\ \A k \in 1..Len(trace) : trace[k].op = "close" => k = Len(trace)
    /\ Count("connect") <= 1
    /\ Count("execute") <= 1
    /\ Count("fetchall") <= 1
    /\ Count("close") <= 1
    /\ \A j, k \in 1..Len(trace) : j < k => Rank(trace[j].op) <= Rank(trace[k].op)

\* C5 witness: a complete run: connect, query, two prints, close.
C5_Witness ==
    /\ Ended
    /\ Count("close") = 1
    /\ Count("print") = 2
    /\ Count("execute") = 1

\* The value get_compile_options returned has been bound (line 14).
Returned == options_list.t = "list"

\* C6 as stated: the lister's return value is the sequence of identifiers
\* <<r1[0], ..., rn[0]>>, not the rows.
C6_ReturnsIdentifiers ==
    Returned =>
        /\ Len(options_list.v) = Len(build.rows)
        /\ \A k \in 1..Len(options_list.v) :
              /\ options_list.v[k].t = "str"
              /\ options_list.v[k] = build.rows[k].v[1]

\* C6 amended: get_compile_options returns the engine's rows themselves, in
\* the engine's order, each a tuple whose first field is the text
\* identifier; the first field is taken only by the print loop, so the lines
\* written so far are the first fields of the rows consumed so far.
C6_ReturnsRows ==
    Returned =>
        /\ options_list.v = build.rows
        /\ \A k \in 1..Len(options_list.v) :
              /\ options_list.v[k].t = "tuple"
              /\ options_list.v[k].v[1].t = "str"
        /\ stdout = [k \in 1..idx |-> options_list.v[k].v[1].v]

\* C6 witness: the lister returned two different rows and one was printed.
C6_Witness ==
    /\ Returned
    /\ Len(options_list.v) = 2
    /\ options_list.v[1] # options_list.v[2]
    /\ idx = 1

\* C7: when the query succeeds with zero rows, the lister returned an empty
\* list, nothing was written, the connection is closed and the status is 0.
C7_NoOptions ==
    (Ended /\ error = "none" /\ build.rows = <<>>) =>
        /\ options_list = List(<<>>)
        /\ stdout = <<>>
        /\ conns[conn] = "closed"
        /\ Count("close") = 1
        /\ exitStatus = <<0>>

\* C7 witness: a run on a build without options that ended without error.
C7_Witness ==
    /\ Ended
    /\ error = "none"
    /\ build.rows = <<>>
    /\ Count("fetchall") = 1

\* C8: on a fixed build an invocation ends as every earlier one did: same
\* returned value, same output, same status; and it ran on a connection of
\* its own.
C8_Deterministic ==
    Ended =>
        \A k \in 1..Len(finished) :
            /\ finished[k].returned = options_list
            /\ finished[k].out = stdout
            /\ finished[k].status = exitStatus
            /\ conn # 0 => finished[k].conn # conn

\* C8 witness: a second invocation that printed two lines has ended.
C8_Witness ==
    /\ Ended
    /\ Len(finished) >= 1
    /\ error = "none"
    /\ Len(stdout) = 2

C10_Eager ==
    /\ stdout # <<>> =>
          /\ Returned
          /\ options_list.v = build.rows
          /\ pending = <<>>
    /\ \A j, k \in 1..Len(trace) :
          (trace[j].op = "print" /\ trace[k].op \in {"execute", "fetchall"}) => k < j
    /\ \A j, k \in 1..Len(trace) :
          (trace[j].op = "print" /\ trace[k].op = "close") => j < k
    /\ Count("close") > 0 => Len(stdout) = Len(build.rows)

\* C10 witness: between the first and the last line of a two-row result.
C10_Witness ==
    /\ pc = "L17"
    /\ Len(build.rows) = 2
    /\ Len(stdout) = 1

TypeOK ==
    /\ build \in Builds
    /\ inv \in 1..Invocations
    /\ pc \in {"L10", "L11", "L5", "L6", "L17", "L21", "exit"}
    /\ conn \in 0..Len(conns)
    /\ cursor \in 0..Len(conns)
    /\ idx \in 0..MaxRows
    /\ error \in {"none", "ConnectionError", "QueryError", "ProgrammingError"}
    /\ exitStatus \in {<<>>, <<0>>, <<1>>}
====
